---- MODULE Spec2Model ----
(***************************************************************************)
(* Model of package indexed (creachadair/indexed): the in-place stable     *)
(* Partition of an indexed collection and the SortUnique composer.         *)
(*                                                                         *)
(* Collections are functions from the Go positions 0..n-1 to elements.     *)
(* The keep predicate is the closure the tests and wrappers build: it      *)
(* reads the element currently at the queried position and applies a       *)
(* fixed predicate on element values (the set `kept`).                     *)
(***************************************************************************)
EXTENDS Integers, FiniteSets

\* ---------------------------------------------------------------- bounds
MaxLen == 4
MaxVal == 3
MaxSortLen == 3
MaxRelVal == 2

Elem == 1..MaxVal

\* Collections of length 0..m over Elem, indexed from 0 as Go slices are.
Collections(m) == UNION {[0..(len - 1) -> Elem] : len \in 0..m}

VARIABLES
    v,      \* the caller's collection, position -> element
    kept,   \* the element values the keep predicate accepts
    less,   \* the order of SortUnique: <<a, b>> \in less iff a sorts before b
    n,      \* n := v.Len()
    i,      \* left cursor
    j,      \* right cursor
    pc,     \* position in the running function
    ret,    \* the value returned (-1 before the return)
    v0,     \* history: the collection as passed in
    at,     \* history: position -> position the element held at entry
            \*          (Partition) or right after sort.Sort (SortUnique)
    swaps,  \* history: number of Swap calls made so far
    moved,  \* history: entry position -> number of Swap calls that moved it
    sortCalls, \* history: number of sort.Sort calls made so far
    byPtr,  \* SortUniqueSlice: v was passed as a pointer to a slice
    keepCalls, \* history: position -> number of keep calls made on it
    swapLog, \* history: the Swap calls made so far, call number -> <<a, b>>
    v2,     \* second run (comparison of two Partition routines): collection
    i2,     \* second run: left cursor
    j2,     \* second run: right cursor
    pc2,    \* second run: position in the running function
    ret2,   \* second run: the value returned (-1 before the return)
    swapLog2 \* second run: the Swap calls made so far

\* The state of the second run.
run2 == <<v2, i2, j2, pc2, ret2, swapLog2>>

vars == <<v, kept, less, n, i, j, pc, ret, v0, at, swaps, moved, sortCalls,
          byPtr, keepCalls, swapLog, run2>>

\* ------------------------------------------------------------ capabilities
\* Swapper.Len
Len(s) == Cardinality(DOMAIN s)

\* Mutant of Swap: the second assignment is lost, position b keeps its element.
SwapOverwrite(s, a, b) == [s EXCEPT ![a] = s[b]]

\* Swapper.Swap (stringSwapper.Swap, intSwapper.Swap, anySlice.Swap)
Swap(s, a, b) == [s EXCEPT ![a] = s[b], ![b] = s[a]]

\* Mutant of keep: the element predicate is inverted.
keepNegated(k) == v[k] \notin kept

\* The keep closure: keep(k) applies the element predicate to the element
\* now at position k.
keep(k) == v[k] \in kept

Identity(s) == [k \in DOMAIN s |-> k]

\* History of calls: the empty log, and a log with one more call.
NoCalls == [c \in {} |-> <<0, 0>>]

Logged(log, call) ==
    [c \in 0..Len(log) |-> IF c < Len(log) THEN log[c] ELSE call]

\* History of keep calls: one more call on position k.
KeepCalled(calls, k) == [calls EXCEPT ![k] = @ + 1]

\* --------------------------------------------------------------- Partition
InitPartition ==
    /\ v \in Collections(MaxLen)
    /\ kept \in SUBSET Elem
    /\ less = {}
    /\ n = Len(v)
    /\ i = 0
    /\ j = 0
    /\ pc = "left"
    /\ ret = -1
    /\ v0 = v
    /\ at = Identity(v)
    /\ swaps = 0
    /\ moved = [k \in DOMAIN v |-> 0]
    /\ sortCalls = 0
    /\ byPtr = FALSE
    /\ keepCalls = [k \in DOMAIN v |-> 0]
    /\ swapLog = NoCalls
    /\ v2 = v
    /\ i2 = 0
    /\ j2 = 0
    /\ pc2 = "left"
    /\ ret2 = -1
    /\ swapLog2 = NoCalls

\* Mutant of PartitionLeftAdvance: the increment of i is missing.
PartitionLeftAdvanceStuck ==
    /\ pc = "left"
    /\ i < n /\ keep(i)
    /\ UNCHANGED vars

\* Mutant of PartitionLeftAdvance: the left scan is an `if`, not a `for`: it
\* passes one kept element at most, then j := i + 1.
PartitionLeftAdvanceOnce ==
    /\ pc = "left"
    /\ i < n /\ keep(i)
    /\ i' = i + 1
    /\ j' = i + 2
    /\ pc' = "outer"
    /\ keepCalls' = KeepCalled(keepCalls, i)
    /\ UNCHANGED <<v, kept, less, n, ret, v0, at, swaps, moved, sortCalls,
                 byPtr, swapLog, run2>>

\* for i < n && keep(i) { i++ }
PartitionLeftAdvance ==
    /\ pc = "left"
    /\ i < n /\ keep(i)
    /\ i' = i + 1
    /\ keepCalls' = KeepCalled(keepCalls, i)
    /\ UNCHANGED <<v, kept, less, n, j, pc, ret, v0, at, swaps, moved, sortCalls,
                 byPtr, swapLog, run2>>

\* Mutant of PartitionInitRight: the right cursor starts at i, not after it.
PartitionInitRightAtI ==
    /\ pc = "left"
    /\ ~(i < n /\ keep(i))
    /\ j' = i
    /\ pc' = "outer"
    /\ keepCalls' = IF i < n THEN KeepCalled(keepCalls, i) ELSE keepCalls
    /\ UNCHANGED <<v, kept, less, n, i, ret, v0, at, swaps, moved, sortCalls,
                 byPtr, swapLog, run2>>

\* The left scan ends; j := i + 1.
PartitionInitRight ==
    /\ pc = "left"
    /\ ~(i < n /\ keep(i))
    /\ j' = i + 1
    /\ pc' = "outer"
    /\ keepCalls' = IF i < n THEN KeepCalled(keepCalls, i) ELSE keepCalls
    /\ UNCHANGED <<v, kept, less, n, i, ret, v0, at, swaps, moved, sortCalls,
                 byPtr, swapLog, run2>>

\* for i < n && j < n { ... }: the loop test holds, enter the body.
PartitionOuterEnter ==
    /\ pc = "outer"
    /\ i < n /\ j < n
    /\ pc' = "right"
    /\ UNCHANGED <<v, kept, less, n, i, j, ret, v0, at, swaps, moved, sortCalls,
                 byPtr, keepCalls, swapLog, run2>>

\* Mutant of PartitionOuterExit: the right cursor is returned.
PartitionOuterExitRetJ ==
    /\ pc = "outer"
    /\ ~(i < n /\ j < n)
    /\ ret' = j
    /\ pc' = "done"
    /\ UNCHANGED <<v, kept, less, n, i, j, v0, at, swaps, moved, sortCalls,
                 byPtr, keepCalls, swapLog, run2>>

\* The loop test fails: return i.
PartitionOuterExit ==
    /\ pc = "outer"
    /\ ~(i < n /\ j < n)
    /\ ret' = i
    /\ pc' = "done"
    /\ UNCHANGED <<v, kept, less, n, i, j, v0, at, swaps, moved, sortCalls,
                 byPtr, keepCalls, swapLog, run2>>

\* Mutant of PartitionRightAdvance: the inner return yields the right cursor.
PartitionRightAdvanceRetJ ==
    /\ pc = "right"
    /\ ~keep(j)
    /\ j' = j + 1
    /\ IF j + 1 = n
          THEN ret' = j + 1 /\ pc' = "done"
          ELSE UNCHANGED <<ret, pc>>
    /\ keepCalls' = KeepCalled(keepCalls, j)
    /\ UNCHANGED <<v, kept, less, n, i, v0, at, swaps, moved, sortCalls,
                 byPtr, swapLog, run2>>

\* Mutant of PartitionRightAdvance: the test j == n after the increment is
\* missing, the scan goes on at n.
PartitionRightAdvanceNoReturn ==
    /\ pc = "right"
    /\ ~keep(j)
    /\ j' = j + 1
    /\ keepCalls' = KeepCalled(keepCalls, j)
    /\ UNCHANGED <<v, kept, less, n, i, pc, ret, v0, at, swaps, moved, sortCalls,
                 byPtr, swapLog, run2>>

\* for !keep(j) { j++; if j == n { return i } }
PartitionRightAdvance ==
    /\ pc = "right"
    /\ ~keep(j)
    /\ j' = j + 1
    /\ IF j + 1 = n
          THEN ret' = i /\ pc' = "done"
          ELSE UNCHANGED <<ret, pc>>
    /\ keepCalls' = KeepCalled(keepCalls, j)
    /\ UNCHANGED <<v, kept, less, n, i, v0, at, swaps, moved, sortCalls,
                 byPtr, swapLog, run2>>

\* Mutant of PartitionSwap: the right cursor is reset to i + 1 after the swap
\* and scans again the positions it had passed.
PartitionSwapResetJ ==
    /\ pc = "right"
    /\ keep(j)
    /\ v' = Swap(v, i, j)
    /\ at' = Swap(at, i, j)
    /\ swaps' = swaps + 1
    /\ moved' = [moved EXCEPT ![at[i]] = @ + 1, ![at[j]] = @ + 1]
    /\ i' = i + 1
    /\ j' = i + 2
    /\ pc' = "outer"
    /\ keepCalls' = KeepCalled(keepCalls, j)
    /\ swapLog' = Logged(swapLog, <<i, j>>)
    /\ UNCHANGED <<kept, less, n, ret, v0, sortCalls,
                 byPtr, run2>>

\* Mutant of PartitionSwap: the left cursor is not advanced after the swap.
PartitionSwapNoAdvanceI ==
    /\ pc = "right"
    /\ keep(j)
    /\ v' = Swap(v, i, j)
    /\ at' = Swap(at, i, j)
    /\ swaps' = swaps + 1
    /\ moved' = [moved EXCEPT ![at[i]] = @ + 1, ![at[j]] = @ + 1]
    /\ j' = j + 1
    /\ pc' = "outer"
    /\ keepCalls' = KeepCalled(keepCalls, j)
    /\ swapLog' = Logged(swapLog, <<i, j>>)
    /\ UNCHANGED <<kept, less, n, i, ret, v0, sortCalls,
                 byPtr, run2>>

\* Mutant of PartitionSwap: the vacancy at i is filled with the last kept
\* element rather than the first one found (an unstable partition).
PartitionSwapFromEnd ==
    /\ pc = "right"
    /\ keep(j)
    /\ LET last == CHOOSE k \in j..(n - 1) :
                       keep(k) /\ \A m \in (k + 1)..(n - 1) : ~keep(m)
       IN  /\ v' = Swap(v, i, last)
           /\ at' = Swap(at, i, last)
           /\ moved' = [moved EXCEPT ![at[i]] = @ + 1, ![at[last]] = @ + 1]
           /\ j' = IF last = j THEN j + 1 ELSE j
           /\ swapLog' = Logged(swapLog, <<i, last>>)
    /\ swaps' = swaps + 1
    /\ i' = i + 1
    /\ pc' = "outer"
    /\ keepCalls' = KeepCalled(keepCalls, j)
    /\ UNCHANGED <<kept, less, n, ret, v0, sortCalls,
                 byPtr, run2>>

\* keep(j) holds: v.Swap(i, j); i++; j++
PartitionSwap ==
    /\ pc = "right"
    /\ keep(j)
    /\ v' = Swap(v, i, j)
    /\ at' = Swap(at, i, j)
    /\ swaps' = swaps + 1
    /\ moved' = [moved EXCEPT ![at[i]] = @ + 1, ![at[j]] = @ + 1]
    /\ i' = i + 1
    /\ j' = j + 1
    /\ pc' = "outer"
    /\ keepCalls' = KeepCalled(keepCalls, j)
    /\ swapLog' = Logged(swapLog, <<i, j>>)
    /\ UNCHANGED <<kept, less, n, ret, v0, sortCalls,
                 byPtr, run2>>

Next ==
    \/ PartitionLeftAdvance
    \/ PartitionInitRight
    \/ PartitionOuterEnter
    \/ PartitionOuterExit
    \/ PartitionRightAdvance
    \/ PartitionSwap

Spec == InitPartition /\ [][Next]_vars

\* ------------------------------------------ filter.Partition (historical)
\* The state of the first run, which a second run leaves alone.
run1 == <<v, kept, less, n, i, j, pc, ret, v0, at, swaps, moved, sortCalls,
          byPtr, keepCalls, swapLog>>

\* Filterable.Keep of the second run (stringFilter.Keep): the element
\* predicate applied to the element now at position k of its collection.
Keep(k) == v2[k] \in kept

\* The historical filter.Partition is run on a copy of the same input once
\* the canonical Partition has returned.
\* for i < n && f.Keep(i) { i++ }
FilterLeftAdvance ==
    /\ pc = "done" /\ pc2 = "left"
    /\ i2 < n /\ Keep(i2)
    /\ i2' = i2 + 1
    /\ UNCHANGED <<run1, v2, j2, pc2, ret2, swapLog2>>

\* Mutant of FilterResetRight: the reset of the right cursor is missing.
FilterResetRightOmitted ==
    /\ pc = "done" /\ pc2 = "left"
    /\ ~(i2 < n /\ Keep(i2))
    /\ pc2' = "right"
    /\ UNCHANGED <<run1, v2, i2, j2, ret2, swapLog2>>

\* The left scan ends; if j <= i { j = i + 1 }
FilterResetRight ==
    /\ pc = "done" /\ pc2 = "left"
    /\ ~(i2 < n /\ Keep(i2))
    /\ j2' = IF j2 <= i2 THEN i2 + 1 ELSE j2
    /\ pc2' = "right"
    /\ UNCHANGED <<run1, v2, i2, ret2, swapLog2>>

\* for j < n && !f.Keep(j) { j++ }
FilterRightAdvance ==
    /\ pc = "done" /\ pc2 = "right"
    /\ j2 < n /\ ~Keep(j2)
    /\ j2' = j2 + 1
    /\ UNCHANGED <<run1, v2, i2, pc2, ret2, swapLog2>>

\* The right scan ends; if i == n || j == n { break }; return i
FilterBreak ==
    /\ pc = "done" /\ pc2 = "right"
    /\ ~(j2 < n /\ ~Keep(j2))
    /\ i2 = n \/ j2 = n
    /\ ret2' = i2
    /\ pc2' = "done"
    /\ UNCHANGED <<run1, v2, i2, j2, swapLog2>>

\* The right scan ends with both cursors inside: f.Swap(i, j); i++; j++
FilterSwap ==
    /\ pc = "done" /\ pc2 = "right"
    /\ ~(j2 < n /\ ~Keep(j2))
    /\ ~(i2 = n \/ j2 = n)
    /\ v2' = Swap(v2, i2, j2)
    /\ swapLog2' = Logged(swapLog2, <<i2, j2>>)
    /\ i2' = i2 + 1
    /\ j2' = j2 + 1
    /\ pc2' = "left"
    /\ UNCHANGED <<run1, ret2>>

NextFilterPartition ==
    \/ FilterLeftAdvance
    \/ FilterResetRight
    \/ FilterRightAdvance
    \/ FilterBreak
    \/ FilterSwap

NextBoth ==
    \/ Next
    \/ NextFilterPartition

\* indexed.Partition, then filter.Partition on the same input.
SpecBoth == InitPartition /\ [][NextBoth]_vars

\* ------------------------------- Partition against a precomputed membership
\* The membership array computed from the original arrangement in one pass
\* before the scan: member[k] is keep's answer for the input's position k.
Member(k) == v0[k] \in kept

\* The cursor algorithm of Partition run against Member, on a copy of the
\* same input, once the canonical Partition has returned.
BitsetLeftAdvance ==
    /\ pc = "done" /\ pc2 = "left"
    /\ i2 < n /\ Member(i2)
    /\ i2' = i2 + 1
    /\ UNCHANGED <<run1, v2, j2, pc2, ret2, swapLog2>>

BitsetInitRight ==
    /\ pc = "done" /\ pc2 = "left"
    /\ ~(i2 < n /\ Member(i2))
    /\ j2' = i2 + 1
    /\ pc2' = "outer"
    /\ UNCHANGED <<run1, v2, i2, ret2, swapLog2>>

BitsetOuterEnter ==
    /\ pc = "done" /\ pc2 = "outer"
    /\ i2 < n /\ j2 < n
    /\ pc2' = "right"
    /\ UNCHANGED <<run1, v2, i2, j2, ret2, swapLog2>>

BitsetOuterExit ==
    /\ pc = "done" /\ pc2 = "outer"
    /\ ~(i2 < n /\ j2 < n)
    /\ ret2' = i2
    /\ pc2' = "done"
    /\ UNCHANGED <<run1, v2, i2, j2, swapLog2>>

BitsetRightAdvance ==
    /\ pc = "done" /\ pc2 = "right"
    /\ ~Member(j2)
    /\ j2' = j2 + 1
    /\ IF j2 + 1 = n
          THEN ret2' = i2 /\ pc2' = "done"
          ELSE UNCHANGED <<ret2, pc2>>
    /\ UNCHANGED <<run1, v2, i2, swapLog2>>

BitsetSwap ==
    /\ pc = "done" /\ pc2 = "right"
    /\ Member(j2)
    /\ v2' = Swap(v2, i2, j2)
    /\ swapLog2' = Logged(swapLog2, <<i2, j2>>)
    /\ i2' = i2 + 1
    /\ j2' = j2 + 1
    /\ pc2' = "outer"
    /\ UNCHANGED <<run1, ret2>>

NextBitset ==
    \/ BitsetLeftAdvance
    \/ BitsetInitRight
    \/ BitsetOuterEnter
    \/ BitsetOuterExit
    \/ BitsetRightAdvance
    \/ BitsetSwap

NextPrecomputed ==
    \/ Next
    \/ NextBitset

\* indexed.Partition, then the same scan against the precomputed membership.
SpecPrecomputed == InitPartition /\ [][NextPrecomputed]_vars

\* ------------------------------------------------- Partition, called twice
\* The caller calls Partition again on the collection the first call left,
\* with the same element predicate. The second call is the same code, so it
\* runs on the same variables from its entry state (i := 0, n := v.Len(),
\* histories empty); what the first call left is recorded in v2, ret2 and
\* swapLog2, and pc2 = "again" marks the second call.
PartitionAgain ==
    /\ pc = "done" /\ pc2 = "left"
    /\ v2' = v
    /\ ret2' = ret
    /\ swapLog2' = swapLog
    /\ pc2' = "again"
    /\ n' = Len(v)
    /\ i' = 0
    /\ j' = 0
    /\ pc' = "left"
    /\ ret' = -1
    /\ v0' = v
    /\ at' = Identity(v)
    /\ swaps' = 0
    /\ moved' = [k \in DOMAIN v |-> 0]
    /\ keepCalls' = [k \in DOMAIN v |-> 0]
    /\ swapLog' = NoCalls
    /\ UNCHANGED <<v, kept, less, sortCalls, byPtr, i2, j2>>

NextTwice ==
    \/ Next
    \/ PartitionAgain

SpecTwice == InitPartition /\ [][NextTwice]_vars

\* ------------------------------------------- FilterStrings / FilterInts
\* The first p elements of s: the Go reslice s[:p].
Reslice(s, p) == [k \in 0..(p - 1) |-> s[k]]

\* Mutant of FilterStrings: *ss is resliced to the part after the split.
FilterStringsTail ==
    /\ pc = "done"
    /\ v' = [k \in 0..(Len(v) - ret - 1) |-> v[ret + k]]
    /\ pc' = "filtered"
    /\ UNCHANGED <<kept, less, n, i, j, ret, v0, at, swaps, moved, sortCalls,
                 byPtr, keepCalls, swapLog, run2>>

\* *ss = (*ss)[:Partition(stringSwapper(*ss), keep-of-element)]: once
\* Partition has returned, *ss is resliced to the split index.
FilterStrings ==
    /\ pc = "done"
    /\ v' = Reslice(v, ret)
    /\ pc' = "filtered"
    /\ UNCHANGED <<kept, less, n, i, j, ret, v0, at, swaps, moved, sortCalls,
                 byPtr, keepCalls, swapLog, run2>>

NextFilterStrings ==
    \/ Next
    \/ FilterStrings

SpecFilterStrings == InitPartition /\ [][NextFilterStrings]_vars

\* -------------------------------------------------------------- SortUnique
\* sort.Interface.Less (sort.StringSlice.Less, sortSlice.Less) on the
\* collection s: the element at a sorts before the element at b.
Less(s, a, b) == <<s[a], s[b]>> \in less

\* The orders SortUnique is specified for: strict weak orders on the elements
\* (irreflexive, transitive, incomparability transitive).
IsStrictWeakOrder(r) ==
    /\ \A a \in Elem : <<a, a>> \notin r
    /\ \A a, b, c \in Elem : <<a, b>> \in r /\ <<b, c>> \in r => <<a, c>> \in r
    /\ \A a, b, c \in Elem :
          /\ <<a, b>> \notin r /\ <<b, a>> \notin r
          /\ <<b, c>> \notin r /\ <<c, b>> \notin r
          => <<a, c>> \notin r /\ <<c, a>> \notin r

StrictWeakOrders == {r \in SUBSET (Elem \X Elem) : IsStrictWeakOrder(r)}

\* sort.Sort(s): s is permuted so that no element sorts before an earlier
\* one. The sort is not stable: any such arrangement may result. With a Less
\* that is no strict weak order sort.Sort still only swaps, and leaves some
\* permutation of s.
SortResults(s) ==
    {t \in [DOMAIN s -> Elem] :
        /\ \A e \in Elem :
              Cardinality({k \in DOMAIN t : t[k] = e}) =
              Cardinality({k \in DOMAIN s : s[k] = e})
        /\ IsStrictWeakOrder(less) =>
              \A a, b \in DOMAIN t : a < b => ~Less(t, b, a)}

InitSortUnique ==
    /\ v \in Collections(MaxSortLen)
    /\ kept = {}
    /\ less \in StrictWeakOrders
    /\ n = Len(v)
    /\ i = 0
    /\ j = 0
    /\ pc = "start"
    /\ ret = -1
    /\ v0 = v
    /\ at = Identity(v)
    /\ swaps = 0
    /\ moved = [k \in DOMAIN v |-> 0]
    /\ sortCalls = 0
    /\ byPtr = FALSE
    /\ keepCalls = [k \in DOMAIN v |-> 0]
    /\ swapLog = NoCalls
    /\ v2 = v
    /\ i2 = 0
    /\ j2 = 0
    /\ pc2 = "left"
    /\ ret2 = -1
    /\ swapLog2 = NoCalls

\* if s.Len() == 0 { return 0 }
SortUniqueEmpty ==
    /\ pc = "start"
    /\ Len(v) = 0
    /\ ret' = 0
    /\ pc' = "done"
    /\ UNCHANGED <<v, kept, less, n, i, j, v0, at, swaps, moved, sortCalls,
                 byPtr, keepCalls, swapLog, run2>>

\* Mutant of SortUniqueSort: the collection is left unsorted.
SortUniqueSortOmitted ==
    /\ pc = "start"
    /\ Len(v) # 0
    /\ sortCalls' = sortCalls + 1
    /\ i' = 0
    /\ j' = 1
    /\ pc' = "dedup"
    /\ UNCHANGED <<v, kept, less, n, ret, v0, at, swaps, moved,
                 byPtr, keepCalls, swapLog, run2>>

\* sort.Sort(s); i, j := 0, 1
SortUniqueSort ==
    /\ pc = "start"
    /\ Len(v) # 0
    /\ v' \in SortResults(v)
    /\ sortCalls' = sortCalls + 1
    /\ i' = 0
    /\ j' = 1
    /\ pc' = "dedup"
    /\ UNCHANGED <<kept, less, n, ret, v0, at, swaps, moved,
                 byPtr, keepCalls, swapLog, run2>>

\* Mutant of SortUniqueMove: the new value is not swapped down to i.
SortUniqueMoveNoSwap ==
    /\ pc = "dedup"
    /\ j < Len(v)
    /\ Less(v, i, j)
    /\ i' = i + 1
    /\ j' = j + 1
    /\ UNCHANGED <<v, kept, less, n, pc, ret, v0, at, swaps, moved, sortCalls,
                 byPtr, keepCalls, swapLog, run2>>

\* Mutant of SortUniqueMove: the test i != j is dropped, Swap is always called.
SortUniqueMoveAlwaysSwap ==
    /\ pc = "dedup"
    /\ j < Len(v)
    /\ Less(v, i, j)
    /\ i' = i + 1
    /\ v' = Swap(v, i + 1, j)
    /\ at' = Swap(at, i + 1, j)
    /\ swaps' = swaps + 1
    /\ moved' = [moved EXCEPT ![at[i + 1]] = @ + 1, ![at[j]] = @ + 1]
    /\ swapLog' = Logged(swapLog, <<i + 1, j>>)
    /\ j' = j + 1
    /\ UNCHANGED <<kept, less, n, pc, ret, v0, sortCalls,
                 byPtr, keepCalls, run2>>

\* j < s.Len() and s.Less(i, j): i++; if i != j { s.Swap(i, j) }; j++
SortUniqueMove ==
    /\ pc = "dedup"
    /\ j < Len(v)
    /\ Less(v, i, j)
    /\ i' = i + 1
    /\ IF i + 1 # j
          THEN /\ v' = Swap(v, i + 1, j)
               /\ at' = Swap(at, i + 1, j)
               /\ swaps' = swaps + 1
               /\ moved' = [moved EXCEPT ![at[i + 1]] = @ + 1, ![at[j]] = @ + 1]
               /\ swapLog' = Logged(swapLog, <<i + 1, j>>)
          ELSE UNCHANGED <<v, at, swaps, moved, swapLog>>
    /\ j' = j + 1
    /\ UNCHANGED <<kept, less, n, pc, ret, v0, sortCalls,
                 byPtr, keepCalls, run2>>

\* Mutant of SortUniqueSkip: i is advanced over a duplicate as well.
SortUniqueSkipAdvancesI ==
    /\ pc = "dedup"
    /\ j < Len(v)
    /\ ~Less(v, i, j)
    /\ i' = i + 1
    /\ j' = j + 1
    /\ UNCHANGED <<v, kept, less, n, pc, ret, v0, at, swaps, moved, sortCalls,
                 byPtr, keepCalls, swapLog, run2>>

\* j < s.Len() and s.Less(i, j) is false: j++
SortUniqueSkip ==
    /\ pc = "dedup"
    /\ j < Len(v)
    /\ ~Less(v, i, j)
    /\ j' = j + 1
    /\ UNCHANGED <<v, kept, less, n, i, pc, ret, v0, at, swaps, moved, sortCalls,
                 byPtr, keepCalls, swapLog, run2>>

\* Mutant of SortUniqueReturn: the last unique position is returned, not the
\* count.
SortUniqueReturnI ==
    /\ pc = "dedup"
    /\ ~(j < Len(v))
    /\ ret' = i
    /\ pc' = "done"
    /\ UNCHANGED <<v, kept, less, n, i, j, v0, at, swaps, moved, sortCalls,
                 byPtr, keepCalls, swapLog, run2>>

\* The loop test j < s.Len() fails: return i + 1.
SortUniqueReturn ==
    /\ pc = "dedup"
    /\ ~(j < Len(v))
    /\ ret' = i + 1
    /\ pc' = "done"
    /\ UNCHANGED <<v, kept, less, n, i, j, v0, at, swaps, moved, sortCalls,
                 byPtr, keepCalls, swapLog, run2>>

NextSortUnique ==
    \/ SortUniqueEmpty
    \/ SortUniqueSort
    \/ SortUniqueMove
    \/ SortUniqueSkip
    \/ SortUniqueReturn

SpecSortUnique == InitSortUnique /\ [][NextSortUnique]_vars

\* ------------------------------------------ filter.SortUnique (historical)
\* indexed.SortUnique, then the historical filter.SortUnique on a copy of the
\* same input (the second run), with the same order.
InitFilterSortUnique ==
    /\ v \in Collections(MaxSortLen)
    /\ kept = {}
    /\ less \in StrictWeakOrders
    /\ n = Len(v)
    /\ i = 0
    /\ j = 0
    /\ pc = "start"
    /\ ret = -1
    /\ v0 = v
    /\ at = Identity(v)
    /\ swaps = 0
    /\ moved = [k \in DOMAIN v |-> 0]
    /\ sortCalls = 0
    /\ byPtr = FALSE
    /\ keepCalls = [k \in DOMAIN v |-> 0]
    /\ swapLog = NoCalls
    /\ v2 = v
    /\ i2 = 0
    /\ j2 = 0
    /\ pc2 = "start"
    /\ ret2 = -1
    /\ swapLog2 = NoCalls

\* if s.Len() == 0 { return 0 }
FilterSortUniqueEmpty ==
    /\ pc = "done" /\ pc2 = "start"
    /\ Len(v2) = 0
    /\ ret2' = 0
    /\ pc2' = "done"
    /\ UNCHANGED <<run1, v2, i2, j2, swapLog2>>

\* sort.Sort(s); i, j := 0, 1
FilterSortUniqueSort ==
    /\ pc = "done" /\ pc2 = "start"
    /\ Len(v2) # 0
    /\ v2' \in SortResults(v2)
    /\ i2' = 0
    /\ j2' = 1
    /\ pc2' = "dedup"
    /\ UNCHANGED <<run1, ret2, swapLog2>>

\* j < s.Len() and s.Less(i, j): i++; if i != j { s.Swap(i, j) }; j++
FilterSortUniqueMove ==
    /\ pc = "done" /\ pc2 = "dedup"
    /\ j2 < Len(v2)
    /\ Less(v2, i2, j2)
    /\ i2' = i2 + 1
    /\ IF i2 + 1 # j2
          THEN /\ v2' = Swap(v2, i2 + 1, j2)
               /\ swapLog2' = Logged(swapLog2, <<i2 + 1, j2>>)
          ELSE UNCHANGED <<v2, swapLog2>>
    /\ j2' = j2 + 1
    /\ UNCHANGED <<run1, pc2, ret2>>

\* j < s.Len() and s.Less(i, j) is false: j++
FilterSortUniqueSkip ==
    /\ pc = "done" /\ pc2 = "dedup"
    /\ j2 < Len(v2)
    /\ ~Less(v2, i2, j2)
    /\ j2' = j2 + 1
    /\ UNCHANGED <<run1, v2, i2, pc2, ret2, swapLog2>>

\* Mutant of FilterSortUniqueReturn: the last unique position is returned,
\* not the count.
FilterSortUniqueReturnI ==
    /\ pc = "done" /\ pc2 = "dedup"
    /\ ~(j2 < Len(v2))
    /\ ret2' = i2
    /\ pc2' = "done"
    /\ UNCHANGED <<run1, v2, i2, j2, swapLog2>>

\* The loop test j < s.Len() fails: return i + 1.
FilterSortUniqueReturn ==
    /\ pc = "done" /\ pc2 = "dedup"
    /\ ~(j2 < Len(v2))
    /\ ret2' = i2 + 1
    /\ pc2' = "done"
    /\ UNCHANGED <<run1, v2, i2, j2, swapLog2>>

NextFilterSortUnique ==
    \/ FilterSortUniqueEmpty
    \/ FilterSortUniqueSort
    \/ FilterSortUniqueMove
    \/ FilterSortUniqueSkip
    \/ FilterSortUniqueReturn

NextBothSortUnique ==
    \/ NextSortUnique
    \/ NextFilterSortUnique

SpecBothSortUnique == InitFilterSortUnique /\ [][NextBothSortUnique]_vars

\* ------------------------------------------- SortUnique, any Less relation
\* SortUnique on a collection whose Less is an arbitrary relation on its
\* elements, a strict weak order or not.
RelElem == 1..MaxRelVal

InitAnyLess ==
    /\ v \in UNION {[0..(len - 1) -> RelElem] : len \in 0..MaxSortLen}
    /\ kept = {}
    /\ less \in SUBSET (RelElem \X RelElem)
    /\ n = Len(v)
    /\ i = 0
    /\ j = 0
    /\ pc = "start"
    /\ ret = -1
    /\ v0 = v
    /\ at = Identity(v)
    /\ swaps = 0
    /\ moved = [k \in DOMAIN v |-> 0]
    /\ sortCalls = 0
    /\ byPtr = FALSE
    /\ keepCalls = [k \in DOMAIN v |-> 0]
    /\ swapLog = NoCalls
    /\ v2 = v
    /\ i2 = 0
    /\ j2 = 0
    /\ pc2 = "left"
    /\ ret2 = -1
    /\ swapLog2 = NoCalls

SpecAnyLess == InitAnyLess /\ [][NextSortUnique]_vars

\* The call runs to completion.
FairSpecAnyLess == SpecAnyLess /\ WF_vars(NextSortUnique)

\* --------------------------------------------------------- SortUniqueSlice
\* SortUniqueSlice(v, less): v is a slice or a pointer to a slice.
InitSortUniqueSlice ==
    /\ v \in Collections(MaxSortLen)
    /\ kept = {}
    /\ less \in StrictWeakOrders
    /\ n = Len(v)
    /\ i = 0
    /\ j = 0
    /\ pc = "start"
    /\ ret = -1
    /\ v0 = v
    /\ at = Identity(v)
    /\ swaps = 0
    /\ moved = [k \in DOMAIN v |-> 0]
    /\ sortCalls = 0
    /\ byPtr \in BOOLEAN
    /\ keepCalls = [k \in DOMAIN v |-> 0]
    /\ swapLog = NoCalls
    /\ v2 = v
    /\ i2 = 0
    /\ j2 = 0
    /\ pc2 = "left"
    /\ ret2 = -1
    /\ swapLog2 = NoCalls

\* Mutant of SortUniqueSliceReturn: the pointer target is never resliced.
SortUniqueSliceReturnNoSet ==
    /\ pc = "done"
    /\ pc' = "sliced"
    /\ UNCHANGED <<v, kept, less, n, i, j, ret, v0, at, swaps, moved, sortCalls,
                 byPtr, keepCalls, swapLog, run2>>

\* n := SortUnique(...); if t.Kind() == reflect.Ptr { t.Elem().Set(u.Slice(0, n)) }
\* return n
SortUniqueSliceReturn ==
    /\ pc = "done"
    /\ v' = IF byPtr THEN Reslice(v, ret) ELSE v
    /\ pc' = "sliced"
    /\ UNCHANGED <<kept, less, n, i, j, ret, v0, at, swaps, moved, sortCalls,
                 byPtr, keepCalls, swapLog, run2>>

NextSortUniqueSlice ==
    \/ NextSortUnique
    \/ SortUniqueSliceReturn

SpecSortUniqueSlice == InitSortUniqueSlice /\ [][NextSortUniqueSlice]_vars

\* The call runs to completion: the calling thread runs every step it can.
FairSpec == Spec /\ WF_vars(Next)

\* ------------------------------------------------- vocabulary of the claims
\* Positions of s whose element the keep predicate accepts.
KeptPositions(s) == {k \in DOMAIN s : s[k] \in kept}

\* The subsequence of accepted elements of s, in order, indexed from 0.
KeptSubseq(s) ==
    [r \in 0..(Cardinality(KeptPositions(s)) - 1) |->
        s[CHOOSE k \in KeptPositions(s) :
            Cardinality({m \in KeptPositions(s) : m < k}) = r]]

Prefix(s, p) == [k \in 0..(p - 1) |-> s[k]]

\* Number of occurrences of element e in s.
Count(s, e) == Cardinality({k \in DOMAIN s : s[k] = e})

Min(a, b) == IF a <= b THEN a ELSE b

Returned == pc = "done"

\* C1: when Partition returns p, 0 <= p <= n, every position below p holds a
\* kept element and every position from p on holds a non-kept element.
C1_PartitionSplits ==
    Returned =>
        /\ ret \in 0..n
        /\ \A k \in 0..(ret - 1) : v[k] \in kept
        /\ \A k \in ret..(n - 1) : v[k] \notin kept

\* A return with kept and non-kept elements on both sides, after a swap.
C1_Witness ==
    /\ Returned /\ swaps >= 1
    /\ 0 < ret /\ ret < n
    /\ v # v0

\* C2: the elements at positions [0, p) of the result, read in order, are the
\* subsequence of kept elements of the input in their original order.
C2_KeptOrderPreserved ==
    Returned =>
        /\ Prefix(v, ret) = KeptSubseq(v0)
        /\ \A a, b \in 0..(ret - 1) : a < b => at[a] < at[b]

\* Two different kept values, brought forward by swaps, keep their order.
C2_Witness ==
    /\ Returned /\ swaps >= 2
    /\ ret >= 2
    /\ \E a, b \in 0..(ret - 1) : a < b /\ v[a] # v[b] /\ moved[at[a]] = 1 /\ moved[at[b]] = 1

\* C3: the index returned is the number of input positions keep accepts.
C3_SplitIsKeptCount ==
    Returned => ret = Cardinality(KeptPositions(v0))

C3_Witness ==
    /\ Returned
    /\ ret = 2 /\ n >= 4
    /\ v0[0] \notin kept

\* C4 as claimed: the number of Swap calls is at most min(p, n - p).
C4_SwapsAtMostMin ==
    Returned => swaps <= Min(ret, n - ret)

\* C4 amended: the number of Swap calls is at most p; it is p less the length
\* of the input's leading run of kept elements, one swap for each kept element
\* that follows the first non-kept one.
C4_SwapsAtMostSplit ==
    Returned =>
        /\ swaps <= ret
        /\ swaps = Cardinality({k \in KeptPositions(v0) :
                                   \E m \in 0..(k - 1) : v0[m] \notin kept})

\* More swaps than non-kept elements: the case the claimed bound excludes.
C4_Witness ==
    /\ Returned
    /\ swaps > n - ret
    /\ swaps <= ret

\* C5: no kept element is an operand of more than one Swap call.
C5_KeptMovedAtMostOnce ==
    \A k \in DOMAIN v0 : v0[k] \in kept => moved[k] <= 1

\* A kept element that was moved once, next to a non-kept one moved twice.
C5_Witness ==
    /\ \E k \in DOMAIN v0 : v0[k] \in kept /\ moved[k] = 1
    /\ \E k \in DOMAIN v0 : v0[k] \notin kept /\ moved[k] >= 2

\* C6: with every element kept Partition returns n, with no element kept it
\* returns 0, for n = 0 it returns 0; in each case it makes no Swap call and
\* leaves the collection as it was.
C6_AllOrNothing ==
    /\ (\A k \in DOMAIN v0 : v0[k] \in kept) =>
           /\ swaps = 0 /\ v = v0
           /\ Returned => ret = n
    /\ (\A k \in DOMAIN v0 : v0[k] \notin kept) =>
           /\ swaps = 0 /\ v = v0
           /\ Returned => ret = 0
    /\ n = 0 => (Returned => ret = 0)

C6_Witness ==
    /\ Returned /\ n >= 2
    /\ \A k \in DOMAIN v0 : v0[k] \in kept
    /\ ret = n /\ swaps = 0

\* C7: in every state of the call the collection is a permutation of the
\* input: same length, same number of occurrences of every element.
C7_Permutation ==
    /\ DOMAIN v = DOMAIN v0
    /\ \A e \in Elem : Count(v, e) = Count(v0, e)
    /\ \A k \in DOMAIN v : v[k] = v0[at[k]]
    /\ \A a, b \in DOMAIN at : at[a] = at[b] => a = b

\* Midway through a call that has already swapped.
C7_Witness ==
    /\ pc = "right" /\ swaps >= 1
    /\ v # v0

\* C8: Partition terminates; neither cursor ever moves back, a completed
\* iteration of the outer loop advances both, and once a cursor is at n the
\* call only returns (no further keep or Swap call).
C8_Terminates ==
    /\ <>Returned
    /\ [][i' >= i /\ j' >= j]_<<i, j>>
    /\ [][pc = "right" /\ pc' = "outer" => i' > i /\ j' > j]_vars
    /\ [][(pc = "outer" /\ (i >= n \/ j >= n)) => Returned']_vars
    /\ [](pc = "right" => i < n /\ j < n)

\* The loop ran at least twice before the return.
C8_Witness ==
    /\ Returned
    /\ swaps >= 2 /\ j = n

\* The elements equal to e under the order: neither sorts before the other.
Class(e) == {f \in Elem : <<e, f>> \notin less /\ <<f, e>> \notin less}

\* The distinct values (equivalence classes of the order) occurring in s.
Distinct(s) == {Class(s[k]) : k \in DOMAIN s}

\* C9: SortUnique returns the number of distinct values of the input; for an
\* empty collection it returns 0 without sorting; for a non-empty one the
\* result is in 1..n.
C9_UniqueCount ==
    /\ Returned => ret = Cardinality(Distinct(v0))
    /\ n = 0 => sortCalls = 0 /\ (Returned => ret = 0)
    /\ (n > 0 /\ Returned) => (1 <= ret /\ ret <= n /\ sortCalls = 1)

\* Fewer distinct values than elements, more than one.
C9_Witness ==
    /\ Returned
    /\ 1 < ret /\ ret < n
    /\ \E a, b \in DOMAIN v0 : v0[a] # v0[b] /\ Class(v0[a]) = Class(v0[b])

\* C10: after SortUnique returns k, positions [0, k) are strictly increasing
\* under the order and hold one representative of each distinct value of the
\* input: none missing, none repeated.
C10_UniquePrefix ==
    Returned =>
        /\ \A a, b \in 0..(ret - 1) : a < b => <<v[a], v[b]>> \in less
        /\ {Class(v[k]) : k \in 0..(ret - 1)} = Distinct(v0)
        /\ \A a, b \in 0..(ret - 1) : Class(v[a]) = Class(v[b]) => a = b

\* A duplicate run was compacted by a swap.
C10_Witness ==
    /\ Returned
    /\ swaps >= 1 /\ ret >= 2
    /\ v0 # v

\* C11: after SortUnique returns k, every element at a position >= k is equal
\* under the order to some element at a position below k.
C11_SuffixDuplicates ==
    Returned =>
        \A k \in ret..(n - 1) : \E m \in 0..(ret - 1) : Class(v[k]) = Class(v[m])

\* Duplicates were left behind the partition point by a swap.
C11_Witness ==
    /\ Returned
    /\ 2 <= ret /\ ret < n
    /\ swaps >= 1

\* C12: in every state of SortUnique the collection has the length of the
\* input and the same number of occurrences of every element.
C12_SortUniquePermutes ==
    /\ Len(v) = Len(v0)
    /\ DOMAIN v = DOMAIN v0
    /\ \A e \in Elem : Count(v, e) = Count(v0, e)
    /\ \A a, b \in DOMAIN at : at[a] = at[b] => a = b

\* In the dedup scan, after a swap, with the input rearranged.
C12_Witness ==
    /\ pc = "dedup"
    /\ swaps >= 1
    /\ v # v0

\* C13: FilterStrings / FilterInts leave *ss equal to the subsequence of the
\* original elements the predicate accepts, in their original order; its
\* length is the number of kept elements.
C13_FilterKeepsSubsequence ==
    pc = "filtered" =>
        /\ v = KeptSubseq(v0)
        /\ Len(v) = Cardinality(KeptPositions(v0))
        /\ \A k \in DOMAIN v : v[k] \in kept

\* Elements were dropped from the middle and the rest closed up by swaps.
C13_Witness ==
    /\ pc = "filtered"
    /\ swaps >= 1
    /\ 2 <= Len(v) /\ Len(v) < Len(v0)
    /\ \E a, b \in DOMAIN v : v[a] # v[b]

\* The positions of s are strictly increasing under the order and hold one
\* element of each distinct value of the input.
SortedDistinct(s) ==
    /\ \A a, b \in DOMAIN s : a < b => <<s[a], s[b]>> \in less
    /\ {Class(s[k]) : k \in DOMAIN s} = Distinct(v0)

\* C14: SortUniqueSlice returns the number of unique elements. Given a
\* pointer, the slice pointed to ends with that length and holds the sorted
\* distinct values; given a plain slice, its length is unchanged and its
\* first positions, up to the count returned, hold the sorted distinct values.
C14_SortUniqueSliceResult ==
    pc = "sliced" =>
        /\ ret = Cardinality(Distinct(v0))
        /\ byPtr => Len(v) = ret /\ SortedDistinct(v)
        /\ ~byPtr => Len(v) = Len(v0) /\ SortedDistinct(Reslice(v, ret))

\* A pointer to a slice with duplicates: the target was shortened.
C14_Witness ==
    /\ pc = "sliced"
    /\ byPtr
    /\ 2 <= ret /\ Len(v) = ret /\ ret < Len(v0)

\* C15: whatever relation Less is, the dedup scan of SortUnique on a
\* collection of length n >= 1 calls Less(i, j) and Swap(a, b) only with
\* 0 <= i < j < n and 0 <= a < b < n, terminates, and returns a value in 1..n.
C15_AnyLessInBounds ==
    /\ <>Returned
    /\ [](pc = "dedup" /\ j < Len(v) => 0 <= i /\ i < j /\ j < n)
    /\ [](\A c \in DOMAIN swapLog :
             0 <= swapLog[c][1] /\ swapLog[c][1] < swapLog[c][2] /\ swapLog[c][2] < n)
    /\ [](Returned /\ n >= 1 => 1 <= ret /\ ret <= n)

\* A Less that is no strict weak order (two elements each before the other),
\* and a scan that swapped.
C15_Witness ==
    /\ Returned
    /\ ~IsStrictWeakOrder(less)
    /\ \E a, b \in RelElem : <<a, b>> \in less /\ <<b, a>> \in less
    /\ swaps >= 1

\* Everything left of cursor c in collection s is kept, and is the first c
\* kept elements of the input in their original order.
KeptPrefix(s, c) ==
    /\ \A k \in 0..(c - 1) : s[k] \in kept
    /\ c <= Cardinality(KeptPositions(v0))
    /\ Prefix(s, c) = Prefix(KeptSubseq(v0), c)

\* C16: in every state of Partition, of the canonical routine and of the
\* historical one, the positions left of the left cursor hold kept elements:
\* the first i kept elements of the input, in their original order.
C16_LeftOfCursorKept ==
    /\ KeptPrefix(v, i)
    /\ KeptPrefix(v2, i2)
    /\ \A a, b \in 0..(i - 1) : a < b => at[a] < at[b]

\* Mid-scan in the canonical routine, two kept elements already in place.
C16_Witness ==
    /\ pc = "right"
    /\ swaps >= 1 /\ i >= 2
    /\ v[0] # v[1]

\* C17: whenever the outer loop of the canonical Partition is entered again
\* after a swap, and while its right scan runs, every position in [i, j)
\* holds a non-kept element, position i among them; i < j holds from the
\* moment j is set.
C17_GapIsUnkept ==
    /\ pc # "left" => i < j
    /\ (pc \in {"outer", "right"} /\ swaps >= 1) =>
           /\ i < n /\ v[i] \notin kept
           /\ \A k \in i..(j - 1) : v[k] \notin kept

\* Back at the loop test after a swap, with a gap of two or more.
C17_Witness ==
    /\ pc = "outer"
    /\ swaps >= 1
    /\ j - i >= 2 /\ j < n

\* C18: neither cursor of the canonical Partition ever decreases, and keep is
\* called at most once on each position (so at most n times in a call).
C18_NoRescan ==
    /\ [][i' >= i /\ j' >= j]_vars
    /\ [](\A k \in DOMAIN keepCalls : keepCalls[k] <= 1)
    /\ [](DOMAIN keepCalls = 0..(n - 1))

\* A call that swapped and called keep on every position.
C18_Witness ==
    /\ Returned
    /\ swaps >= 1 /\ n >= 3
    /\ \A k \in DOMAIN keepCalls : keepCalls[k] = 1

\* C20: the historical filter.Partition and the canonical indexed.Partition,
\* run on the same input with the same element predicate, make the same
\* sequence of Swap calls, leave the same arrangement and return the same
\* index.
C20_VariantsAgree ==
    (pc = "done" /\ pc2 = "done") =>
        /\ swapLog2 = swapLog
        /\ v2 = v
        /\ ret2 = ret

\* Both routines returned after two or more swaps.
C20_Witness ==
    /\ pc = "done" /\ pc2 = "done"
    /\ Len(swapLog2) >= 2
    /\ v2 # v0

\* Position k still holds the element it held in the input, and no Swap has
\* had it as an operand.
Untouched(k) == at[k] = k /\ moved[k] = 0 /\ v[k] = v0[k]

\* C19: whenever the canonical Partition calls keep(k) (on i in the left
\* scan, on j in the right scan), position k is untouched by any earlier Swap
\* and keep answers as the membership array precomputed from the input does;
\* the scan run against that array makes the same sequence of Swap calls,
\* leaves the same arrangement and returns the same index.
C19_KeepReadsOriginal ==
    /\ (pc = "left" /\ i < n) => Untouched(i) /\ ((v[i] \in kept) <=> Member(i))
    /\ pc = "right" => Untouched(j) /\ ((v[j] \in kept) <=> Member(j))
    /\ (pc = "done" /\ pc2 = "done") =>
           /\ swapLog2 = swapLog
           /\ v2 = v
           /\ ret2 = ret

\* Both scans returned after swaps that moved kept and non-kept elements.
C19_Witness ==
    /\ pc = "done" /\ pc2 = "done"
    /\ Len(swapLog) >= 2
    /\ ret2 >= 2 /\ ret2 < n

\* Every call in the log has operands a and b with 0 <= a < b < len.
SwapsInBounds(log, len) ==
    \A c \in DOMAIN log :
        0 <= log[c][1] /\ log[c][1] < log[c][2] /\ log[c][2] < len

\* C21: Partition stays in bounds, in the canonical routine and in the
\* historical one: every keep(k) call has 0 <= k < n (keep(i) of the left
\* scan, keep(j) of the right scan), every Swap(a, b) call has
\* 0 <= a < b < n, and the right cursor starts at or beyond i + 1 and is
\* never read at n.
C21_InBounds ==
    /\ 0 <= i /\ 0 <= j /\ 0 <= i2 /\ 0 <= j2
    /\ pc = "right" => i < j /\ j < n
    /\ pc \in {"outer", "right"} => j >= i + 1
    /\ SwapsInBounds(swapLog, n)
    /\ pc2 = "right" => j2 >= i2 + 1
    /\ SwapsInBounds(swapLog2, n)
    /\ DOMAIN v = 0..(n - 1) /\ DOMAIN v2 = 0..(n - 1)

\* Both routines ran their right cursor to the end and swapped into the last
\* position on the way.
C21_Witness ==
    /\ pc = "done" /\ pc2 = "done"
    /\ j = n /\ j2 = n
    /\ \E c \in DOMAIN swapLog : swapLog[c][2] = n - 1
    /\ \E c \in DOMAIN swapLog2 : swapLog2[c][2] = n - 1 /\ swapLog2[c][1] >= 1

\* C22: loop invariant of the dedup scan of SortUnique on a sorted
\* collection. In every state of the scan i < j (and j <= n); positions
\* [0, i] are strictly increasing under the order, so pairwise distinct;
\* every value at a position below j has a representative in [0, i];
\* position j and all later ones still hold the elements the sort placed
\* there, and no step of the scan changes them.
C22_DedupInvariant ==
    /\ [](pc = "dedup" =>
            /\ 0 <= i /\ i < j /\ j <= n
            /\ \A a, b \in 0..i : a < b => <<v[a], v[b]>> \in less
            /\ \A a, b \in 0..i : Class(v[a]) = Class(v[b]) => a = b
            /\ \A k \in 0..(j - 1) : \E m \in 0..i : Class(v[k]) = Class(v[m])
            /\ \A k \in j..(n - 1) : at[k] = k)
    /\ [][(pc = "dedup" /\ pc' = "dedup") =>
            \A k \in j'..(n - 1) : v'[k] = v[k]]_vars

\* Mid-scan on a collection the sort rearranged: a duplicate was skipped and
\* position j is still to be read.
C22_Witness ==
    /\ pc = "dedup"
    /\ j < n /\ j >= i + 2
    /\ v # v0

\* C23: Partition is idempotent. A second call on the result of a first call,
\* with the same element predicate, makes no Swap call, leaves the collection
\* as the first call left it, in every state of the call, and returns the
\* index the first call returned.
C23_Idempotent ==
    pc2 = "again" =>
        /\ swaps = 0
        /\ swapLog = NoCalls
        /\ v = v2
        /\ Returned => ret = ret2

\* The second call returned, on a collection the first call had rearranged
\* with two or more swaps, kept and non-kept elements on both sides.
C23_Witness ==
    /\ pc2 = "again" /\ Returned
    /\ Len(swapLog2) >= 2
    /\ 0 < ret /\ ret < n

====
